---- MODULE Spec2Model ----
(***************************************************************************)
(* pymongo/synchronous/cursor.py: the Cursor state machine (configuration  *)
(* setters, _refresh/_send_message, cleanup) and the exhaust connection    *)
(* manager, against a nondeterministic client/server environment.          *)
(*                                                                         *)
(* A Python object is a record; an optional value is None (<<>>) or        *)
(* Some(x) (<<x>>).  A method is an operator from the world w (cursor,     *)
(* client, server, observations) to the world after the call; an exception *)
(* is w.obs.result # "ok", which every caller propagates.                  *)
(***************************************************************************)
EXTENDS Integers, Sequences, FiniteSets, TLC

VARIABLES self, client, server, obs, mgr, pc, unpins

vars == <<self, client, server, obs, mgr, pc, unpins>>

(* ------------------------------ bounds -------------------------------- *)
\* documents a collection holds at most
MaxDocs == 3
\* largest batch the server fills in one response
MaxBatch == 2
\* configuration calls explored on one cursor
MaxSetterCalls == 2
\* close() calls each thread makes on a shared connection manager
MaxCloseCalls == 2
\* threads sharing a connection manager
NThreads == 3

(* ------------------------------ values -------------------------------- *)
None == <<>>
Some(x) == <<x>>
Minimum(a, b) == IF a <= b THEN a ELSE b
Abs(a) == IF a < 0 THEN 0 - a ELSE a
Range(a, b) == [i \in 1..(b - a + 1) |-> a + i - 1]

\* CursorType, as the set of query-flag bits it sets
NON_TAILABLE == {}
TAILABLE == {"tailable_cursor"}
TAILABLE_AWAIT == {"tailable_cursor", "await_data"}
EXHAUST == {"exhaust"}
CursorTypes == {NON_TAILABLE, TAILABLE, TAILABLE_AWAIT, EXHAUST}

Addrs == {"A", "B"}
OrigNs == "db.coll"
OtherNs == "db.other"

\* no exception out of the environment
NoFault == [kind |-> "none", closed |-> FALSE, timeout |-> FALSE]

\* truthiness of self._id: None and 0 are false
IdTruthy(id) == id # None /\ id[1] # 0

(* --------------------------- observations ----------------------------- *)
\* The start of a public call: what the last call did is forgotten, but
\* for whether it was a close().
Begin(w, name) ==
    [w EXCEPT !.obs.prev = (IF w.obs.op = "close" THEN "close" ELSE "other"),
              !.obs.op = name, !.obs.result = "ok",
              !.obs.returned = <<>>, !.obs.cleanups = <<>>, !.obs.exch = <<>>,
              !.obs.fault = NoFault, !.obs.clone = None]

Raise(w, exc) == [w EXCEPT !.obs.result = exc]
Ok(w) == w.obs.result = "ok"

(* ---------------------- _ConnectionManager.close ---------------------- *)
\* One uninterrupted call of close() on the manager m; yields the manager
\* and the number of unpin() calls it made.
ManagerClose(m) ==
    IF m.conn # None
    THEN [m |-> [m EXCEPT !.conn = None], unpinned |-> 1]
    ELSE [m |-> m, unpinned |-> 0]

(* ------------------- the client's cleanup entry point ----------------- *)
\* MongoClient._cleanup_cursor_lock / _cleanup_cursor_no_lock: a nonzero
\* cursor id is a kill request; the pinned connection goes back to the pool
\* and an implicit session is ended.
_cleanup_cursor(w, path, cursor_id, address, conn_mgr, session, explicit_session) ==
    LET closed == IF conn_mgr # None /\ ManagerClose(conn_mgr[1]).unpinned = 1
                  THEN {conn_mgr[1].conn[1]} ELSE {}
        ended == session # None /\ ~explicit_session
    IN  [w EXCEPT
           !.obs.cleanups = Append(@, [path |-> path, cursor_id |-> cursor_id,
                                       address |-> address]),
           !.obs.kills = IF cursor_id # 0 THEN @ + 1 ELSE @,
           !.client.pinned = @ \ closed,
           !.client.unpinned = @ + Cardinality(closed),
           !.client.sessions = IF ended THEN @ - 1 ELSE @]

(* ------------------------ Cursor._prepare_to_die ---------------------- *)
\* The world with killed set, and the (cursor_id, address) to hand over.
_prepare_to_die_unconditional(w, already_killed) ==
    [w |-> [w EXCEPT !.self._killed = TRUE],
     cursor_id |-> IF IdTruthy(w.self._id) THEN w.self._id[1] ELSE 0,
     address |-> IF IdTruthy(w.self._id)
                 THEN Some([address |-> w.self._address, ns |-> w.self._ns])
                 ELSE None]

_prepare_to_die_original_ns(w, already_killed) ==
    LET kill == IdTruthy(w.self._id) /\ ~already_killed
    IN  [w |-> [w EXCEPT !.self._killed = TRUE],
         cursor_id |-> IF kill THEN w.self._id[1] ELSE 0,
         address |-> IF kill THEN Some([address |-> w.self._address, ns |-> OrigNs])
                     ELSE None]

_prepare_to_die_unmarked(w, already_killed) ==
    LET kill == IdTruthy(w.self._id) /\ ~already_killed
    IN  [w |-> w,
         cursor_id |-> IF kill THEN w.self._id[1] ELSE 0,
         address |-> IF kill THEN Some([address |-> w.self._address, ns |-> w.self._ns])
                     ELSE None]

_prepare_to_die(w, already_killed) ==
    LET kill == IdTruthy(w.self._id) /\ ~already_killed
    IN  [w |-> [w EXCEPT !.self._killed = TRUE],
         cursor_id |-> IF kill THEN w.self._id[1] ELSE 0,
         address |-> IF kill THEN Some([address |-> w.self._address, ns |-> w.self._ns])
                     ELSE None]

_die_clearing_session(w, path) ==
    LET p == _prepare_to_die(w, w.self._killed)
        c == _cleanup_cursor(p.w, path, p.cursor_id, p.address, w.self._sock_mgr,
                             w.self._session, w.self._explicit_session)
    IN  [c EXCEPT !.self._session = None, !.self._sock_mgr = None]

_die(w, path) ==
    LET p == _prepare_to_die(w, w.self._killed)
        c == _cleanup_cursor(p.w, path, p.cursor_id, p.address, w.self._sock_mgr,
                             w.self._session, w.self._explicit_session)
    IN  [c EXCEPT !.self._session = IF ~w.self._explicit_session THEN None ELSE @,
                  !.self._sock_mgr = None]

\* the same entry point when the client's cleanup call raises: the
\* statements after the call do not run
_die_interrupted(w, path) ==
    Raise(_prepare_to_die(w, w.self._killed).w, "BaseException")

_die_no_lock(w) == _die(w, "no_lock")
_die_lock(w) == _die(w, "lock")
close(w) == _die_lock(w)

(* ----------------- the environment: client._run_operation -------------- *)
\* What one call of the environment does is scripted by sc: the collection
\* holds sc.total documents, the server fills a batch with up to sc.k of
\* them and, when sc.eager, reports cursor id 0 with the batch that reaches
\* the end; sc.fault raised by exchange number sc.at of the call replaces
\* the response.
ServerCursorId(addr) == IF addr = "A" THEN 1 ELSE 2

Faults ==
    {[kind |-> "none", closed |-> FALSE, timeout |-> FALSE],
     [kind |-> "BaseException", closed |-> FALSE, timeout |-> FALSE]}
    \cup [kind : {"OperationFailure"}, closed : BOOLEAN, timeout : BOOLEAN]
    \cup [kind : {"ConnectionFailure"}, closed : {FALSE}, timeout : BOOLEAN]

\* The outcome of client._run_operation(operation, ..., address): a raised
\* exception or a response.  A find starts the server cursor at document 1;
\* a getMore is answered with at most operation.limit documents when that
\* is positive; an exhaust stream continues the find within its limit.  An
\* operation that carries a connection manager runs on its connection, any
\* other on a connection checked out of the pool.
_batch(operation, sent, avail, sc) ==
    Minimum(sc.k,
            IF operation.name # "getMore" /\ operation.batch_size > 0
            THEN Minimum(operation.batch_size, avail - sent)
            ELSE IF operation.name = "getMore" /\ ~operation.exhaust /\ operation.limit > 0
            THEN Minimum(operation.limit, avail - sent)
            ELSE avail - sent)

_reply(operation, addr, sent, lim, k, zero, sc) ==
    [kind |-> "response", address |-> addr,
     pinned |-> operation.exhaust,
     conn |-> IF operation.sock_mgr # None /\ operation.sock_mgr[1].conn # None
              THEN operation.sock_mgr[1].conn[1]
              ELSE IF operation.name # "getMore" THEN "c1" ELSE "c2",
     more_to_come |-> operation.exhaust /\ ~zero,
     from_command |-> sc.form = "command",
     cursor_id |-> IF zero THEN 0 ELSE ServerCursorId(addr),
     docs |-> Range(sent + 1, sent + k),
     number_returned |-> k,
     ns |-> IF operation.name # "getMore" /\ sc.form = "command" THEN sc.ns ELSE None,
     limit |-> lim]

\* the server cursor is at document sent of avail, under the find's limit lim
_serve(operation, addr, sent, lim, avail, sc) ==
    _reply(operation, addr, sent, lim,
           _batch(operation, sent, IF avail > sent THEN avail ELSE sent, sc),
           sc.eager /\ sent + _batch(operation, sent,
                                     IF avail > sent THEN avail ELSE sent, sc) >= avail,
           sc)

_run_operation(w, operation, address, sc) ==
    IF sc.fault.kind # "none" /\ Len(w.obs.exch) + 1 = sc.at
    THEN sc.fault
    ELSE IF operation.name # "getMore"
    THEN _serve(operation, IF address # None THEN address[1] ELSE sc.addr,
                0, Abs(operation.limit),
                IF operation.limit # 0 THEN Minimum(sc.total, Abs(operation.limit))
                ELSE sc.total, sc)
    ELSE _serve(operation, IF address # None THEN address[1] ELSE sc.addr,
                w.server.sent, w.server.limit,
                IF operation.exhaust /\ w.server.limit # 0
                THEN Minimum(sc.total, w.server.limit) ELSE sc.total, sc)

\* What the exchange leaves behind outside the cursor: the request is on
\* record, the server cursor has advanced, the connection of a pinned
\* response is pinned.
Exchanged(w, operation, address, out) ==
    LET w1 == [w EXCEPT !.obs.exch = Append(@, [name |-> operation.name,
                                                 n |-> operation.limit,
                                                 cursor_id |-> operation.cursor_id,
                                                 ns |-> operation.ns,
                                                 address |-> address,
                                                 got |-> IF out.kind = "response"
                                                         THEN Len(out.docs) ELSE 0]),
                        !.obs.fault = IF out.kind # "response" THEN out ELSE NoFault]
    IN  IF out.kind # "response" THEN w1
        ELSE [w1 EXCEPT !.obs.recv = @ + Len(out.docs),
                        !.server.sent = (IF operation.name # "getMore" THEN 0 ELSE @)
                                        + Len(out.docs),
                        !.server.limit = out.limit,
                        !.client.pinned = IF out.pinned THEN @ \cup {out.conn} ELSE @,
                        !.client.unpinned = IF out.pinned /\ w.client.pinned = {}
                                            THEN 0 ELSE @]

(* ------------------------- Cursor._send_message ----------------------- *)
\* except OperationFailure as exc
_die_for(w, exc) == IF exc.timeout THEN _die_no_lock(w) ELSE close(w)

_reraise_always(w, exc) == Raise(w, "OperationFailure")

_reraise(w, exc) ==
    IF exc.closed /\ "tailable_cursor" \in w.self._query_flags
    THEN w
    ELSE Raise(w, "OperationFailure")

_on_operation_failure_unmarked(w, exc) == _reraise(_die_for(w, exc), exc)

_on_operation_failure(w, exc) ==
    _reraise(_die_for(IF exc.closed \/ w.self._exhaust
                      THEN [w EXCEPT !.self._killed = TRUE] ELSE w, exc), exc)

\* except ConnectionFailure
_on_connection_failure(w) ==
    Raise(close([w EXCEPT !.self._killed = TRUE]), "ConnectionFailure")

\* except BaseException
_on_base_exception_no_close(w) == Raise(w, "BaseException")

_on_base_exception(w) == Raise(close(w), "BaseException")

\* self._address = response.address, and the manager of a pinned response
_pin_response(w, response) ==
    IF response.pinned /\ w.self._sock_mgr = None
    THEN [w EXCEPT !.self._address = Some(response.address),
                   !.self._sock_mgr = Some([conn |-> Some(response.conn),
                                            more_to_come |-> response.more_to_come])]
    ELSE [w EXCEPT !.self._address = Some(response.address)]

\* the cursor id, the batch and the retrieved count taken from the response
_unpack_overwriting(w, operation, response) ==
    [w EXCEPT !.self._id = Some(response.cursor_id),
              !.self._data = response.docs,
              !.self._retrieved = Len(response.docs)]

_unpack(w, operation, response) ==
    IF response.from_command
    THEN IF operation.name # "explain"
         THEN [w EXCEPT !.self._id = Some(response.cursor_id),
                        !.self._ns = IF operation.name = "find" /\ response.ns # None
                                     THEN response.ns[1] ELSE @,
                        !.self._data = response.docs,
                        !.self._retrieved = @ + Len(response.docs)]
         ELSE [w EXCEPT !.self._id = Some(0),
                        !.self._data = response.docs,
                        !.self._retrieved = @ + Len(response.docs)]
    ELSE [w EXCEPT !.self._id = Some(response.cursor_id),
                   !.self._data = response.docs,
                   !.self._retrieved = @ + response.number_returned]

\* if self._id == 0: self.close()
_close_exhausted_never(w) == w

_close_exhausted(w) == IF w.self._id = Some(0) THEN close(w) ELSE w

\* if self._limit and self._id and self._limit <= self._retrieved: self.close()
_close_at_limit_never(w) == w

_close_at_limit_positive(w) ==
    IF w.self._limit > 0 /\ IdTruthy(w.self._id) /\ w.self._limit <= w.self._retrieved
    THEN close(w) ELSE w

_close_at_limit(w) ==
    IF w.self._limit # 0 /\ IdTruthy(w.self._id) /\ w.self._limit <= w.self._retrieved
    THEN close(w) ELSE w

\* the except clauses and the response handling, on the outcome out
_received(w, operation, out) ==
    CASE out.kind = "OperationFailure" -> _on_operation_failure(w, out)
      [] out.kind = "ConnectionFailure" -> _on_connection_failure(w)
      [] out.kind = "BaseException" -> _on_base_exception(w)
      [] OTHER -> _close_at_limit(_close_exhausted(
                      _unpack(_pin_response(w, out), operation, out)))

_exchange(w, operation, out) ==
    _received(Exchanged(w, operation, w.self._address, out), operation, out)

_send_message_unaddressed(w, operation, sc) ==
    IF w.client._encrypter /\ w.self._exhaust
    THEN Raise(w, "InvalidOperation")
    ELSE _received(Exchanged(w, operation, None,
                             _run_operation(w, operation, None, sc)),
                   operation, _run_operation(w, operation, None, sc))

_send_message(w, operation, sc) ==
    IF w.client._encrypter /\ w.self._exhaust
    THEN Raise(w, "InvalidOperation")
    ELSE _exchange(w, operation, _run_operation(w, operation, w.self._address, sc))

(* ---------------------------- Cursor._refresh ------------------------- *)
\* client._ensure_session(): an implicit session
_ensure_session(w) ==
    IF w.self._session = None
    THEN [w EXCEPT !.self._session = Some("implicit"), !.client.sessions = @ + 1]
    ELSE w

_query(w) ==
    [name |-> IF w.self._explain THEN "explain" ELSE "find",
     ns |-> OrigNs, flags |-> w.self._query_flags, skip |-> w.self._skip,
     limit |-> w.self._limit, batch_size |-> w.self._batch_size,
     cursor_id |-> None, sock_mgr |-> None, exhaust |-> w.self._exhaust,
     session |-> w.self._session, let |-> w.self._let]

\* the batch size a getMore asks for
_getmore_limit_unbatched(c) ==
    IF c._limit # 0 THEN c._limit - c._retrieved ELSE 0

_getmore_limit_of_whole(c) ==
    IF c._limit # 0
    THEN IF c._batch_size # 0 THEN Minimum(c._limit, c._batch_size) ELSE c._limit
    ELSE c._batch_size

_getmore_limit_beyond(c) ==
    IF c._batch_size # 0 THEN c._batch_size
    ELSE IF c._limit # 0 THEN c._limit - c._retrieved ELSE 0

_getmore_limit(c) ==
    IF c._limit # 0
    THEN IF c._batch_size # 0
         THEN Minimum(c._limit - c._retrieved, c._batch_size)
         ELSE c._limit - c._retrieved
    ELSE c._batch_size

_getmore_unpinned(w) ==
    [name |-> "getMore", ns |-> w.self._ns, flags |-> w.self._query_flags,
     skip |-> 0, limit |-> _getmore_limit(w.self), batch_size |-> 0,
     cursor_id |-> w.self._id, sock_mgr |-> None,
     exhaust |-> w.self._exhaust, session |-> w.self._session]

_getmore(w) ==
    [name |-> "getMore", ns |-> w.self._ns, flags |-> w.self._query_flags,
     skip |-> 0, limit |-> _getmore_limit(w.self), batch_size |-> 0,
     cursor_id |-> w.self._id, sock_mgr |-> w.self._sock_mgr,
     exhaust |-> w.self._exhaust, session |-> w.self._session]

\* _refresh once the session is bound
_refresh_bound_unchecked(w, sc) ==
    IF w.self._id = None
    THEN _send_message(w, _query(w), sc)
    ELSE IF IdTruthy(w.self._id)
         THEN _send_message(w, _getmore(w), sc)
         ELSE w

_refresh_bound(w, sc) ==
    IF w.self._id = None
    THEN IF (w.self._min # None \/ w.self._max # None) /\ w.self._hint = None
         THEN Raise(w, "InvalidOperation")
         ELSE _send_message(w, _query(w), sc)
    ELSE IF IdTruthy(w.self._id)
         THEN _send_message(w, _getmore(w), sc)
         ELSE w

_refresh_when_killed(w, sc) ==
    IF Len(w.self._data) > 0
    THEN w
    ELSE _refresh_bound(_ensure_session(w), sc)

_refresh(w, sc) ==
    IF Len(w.self._data) > 0 \/ w.self._killed
    THEN w
    ELSE _refresh_bound(_ensure_session(w), sc)

(* ------------------------- next, alive, rewind ------------------------ *)
alive(c) == Len(c._data) > 0 \/ ~c._killed

\* self._data.popleft(), handed to the caller
_popleft_last(w) ==
    [w EXCEPT !.self._data = SubSeq(@, 1, Len(@) - 1),
              !.obs.returned = Append(@, w.self._data[Len(w.self._data)]),
              !.obs.delivered = Append(@, w.self._data[Len(w.self._data)])]

_popleft(w) ==
    [w EXCEPT !.self._data = Tail(@),
              !.obs.returned = Append(@, Head(w.self._data)),
              !.obs.delivered = Append(@, Head(w.self._data))]

\* the same with the document read but left in the buffer
_pop_or_stop_unpopped(w) ==
    IF ~Ok(w) THEN w
    ELSE IF Len(w.self._data) > 0
    THEN [w EXCEPT !.obs.returned = Append(@, Head(w.self._data))]
    ELSE Raise(w, "StopIteration")

\* return self._data.popleft(), or raise StopIteration
_pop_or_stop(w) ==
    IF ~Ok(w) THEN w
    ELSE IF Len(w.self._data) > 0 THEN _popleft(w)
    ELSE Raise(w, "StopIteration")

\* (_exhaust_checked is set by __init__, _IS_SYNC being True, so the
\* _supports_exhaust() check of next and _next_batch never runs again)
next_ignoring_empty(w, sc) ==
    _pop_or_stop(IF Len(w.self._data) > 0 THEN w ELSE _refresh(w, sc))

next(w, sc) ==
    IF w.self._empty
    THEN Raise(w, "StopIteration")
    ELSE _pop_or_stop(IF Len(w.self._data) > 0 THEN w ELSE _refresh(w, sc))

rewind_without_close(w) ==
    [w EXCEPT !.self._data = <<>>, !.self._id = None, !.self._address = None,
              !.self._retrieved = 0, !.self._killed = FALSE,
              !.obs.kills = 0, !.obs.delivered = <<>>, !.obs.recv = 0]

rewind(w) ==
    LET w1 == close(w)
    IN  [w1 EXCEPT !.self._data = <<>>, !.self._id = None, !.self._address = None,
                   !.self._retrieved = 0, !.self._killed = FALSE,
                   !.obs.kills = 0, !.obs.delivered = <<>>, !.obs.recv = 0]

(* ------------------------ _next_batch, to_list ------------------------ *)
\* result.extend(...): the first n buffered documents move to the result
_extend(w, res, n) ==
    [w |-> [w EXCEPT !.self._data = SubSeq(@, n + 1, Len(@))],
     res |-> res \o SubSeq(w.self._data, 1, n),
     more |-> TRUE]

_take_all(w, res, total) ==
    IF ~Ok(w) \/ Len(w.self._data) = 0
    THEN [w |-> w, res |-> res, more |-> FALSE]
    ELSE _extend(w, res, Len(w.self._data))

_take(w, res, total) ==
    IF ~Ok(w) \/ Len(w.self._data) = 0
    THEN [w |-> w, res |-> res, more |-> FALSE]
    ELSE _extend(w, res, IF total = None THEN Len(w.self._data)
                         ELSE Minimum(Len(w.self._data), total[1]))

\* One call of _next_batch(result, total) in the loop state
\* b = [w, res, more]: more is its return value.
_next_batch(b, total, sc) ==
    IF b.w.self._empty
    THEN [b EXCEPT !.more = FALSE]
    ELSE _take(IF Len(b.w.self._data) > 0 THEN b.w ELSE _refresh(b.w, sc), b.res, total)

RECURSIVE _to_list_loop(_, _, _, _)
\* the loop body after _next_batch has returned b
_to_list_step(b, length, remaining, sc) ==
    IF ~b.more THEN b
    ELSE IF length = None THEN _to_list_loop(b, length, remaining, sc)
    ELSE IF length[1] - Len(b.res) = 0 THEN b
    ELSE _to_list_loop(b, length, Some(length[1] - Len(b.res)), sc)

_to_list_loop(b, length, remaining, sc) ==
    IF ~alive(b.w.self)
    THEN b
    ELSE _to_list_step(_next_batch(b, remaining, sc), length, remaining, sc)

\* return res
_to_list_return(b) ==
    IF ~Ok(b.w) THEN b.w
    ELSE [b.w EXCEPT !.obs.returned = b.res, !.obs.delivered = @ \o b.res]

to_list(w, length, sc) ==
    IF length # None /\ length[1] < 1
    THEN Raise(w, "ValueError")
    ELSE _to_list_return(
             _to_list_loop([w |-> w, res |-> <<>>, more |-> TRUE], length, length, sc))

(* --------------------------- Cursor.__init__ -------------------------- *)
\* _supports_exhaust: whether construction with these arguments raises
_supports_exhaust(cursor_type, limit, is_mongos) ==
    IF cursor_type = EXHAUST
    THEN IF is_mongos THEN "InvalidOperation"
         ELSE IF limit # 0 THEN "InvalidOperation" ELSE "ok"
    ELSE "ok"

Cursor(cursor_type, limit, batch_size, session, let) ==
    [_id |-> None, _let |-> let, _exhaust |-> cursor_type = EXHAUST, _sock_mgr |-> None,
     _killed |-> FALSE, _session |-> session, _explicit_session |-> session # None,
     _spec |-> {}, _has_filter |-> FALSE, _skip |-> 0, _limit |-> limit,
     _batch_size |-> batch_size, _ordering |-> None, _max_scan |-> None,
     _explain |-> FALSE, _comment |-> None, _max_time_ms |-> None,
     _max_await_time_ms |-> None, _max |-> None, _min |-> None,
     _collation |-> None, _allow_disk_use |-> None, _hint |-> None,
     _empty |-> FALSE, _data |-> <<>>, _address |-> None, _retrieved |-> 0,
     _query_flags |-> cursor_type, _cursor_type |-> cursor_type, _ns |-> OrigNs]

(* ------------------------ configuration setters ----------------------- *)
_check_okay_to_chain_never(w) == w

_check_okay_to_chain(w) ==
    IF w.self._retrieved # 0 \/ w.self._id # None
    THEN Raise(w, "InvalidOperation")
    ELSE w

add_option(w, mask, is_mongos) ==
    LET w1 == _check_okay_to_chain(w)
    IN  IF ~Ok(w1) THEN w1
        ELSE IF "exhaust" \in mask /\ w1.self._limit # 0 THEN Raise(w1, "InvalidOperation")
        ELSE IF "exhaust" \in mask /\ is_mongos THEN Raise(w1, "InvalidOperation")
        ELSE [w1 EXCEPT !.self._exhaust = IF "exhaust" \in mask THEN TRUE ELSE @,
                        !.self._query_flags = @ \cup mask]

remove_option(w, mask) ==
    LET w1 == _check_okay_to_chain(w)
    IN  IF ~Ok(w1) THEN w1
        ELSE [w1 EXCEPT !.self._exhaust = IF "exhaust" \in mask THEN FALSE ELSE @,
                        !.self._query_flags = @ \ mask]

allow_disk_use(w, v) ==
    LET w1 == _check_okay_to_chain(w)
    IN  IF ~Ok(w1) THEN w1 ELSE [w1 EXCEPT !.self._allow_disk_use = Some(v)]

limit(w, l) ==
    IF w.self._exhaust
    THEN Raise(w, "InvalidOperation")
    ELSE LET w1 == _check_okay_to_chain(w)
         IN  IF ~Ok(w1) THEN w1
             ELSE [w1 EXCEPT !.self._empty = FALSE, !.self._limit = l]

batch_size(w, b) ==
    IF b < 0
    THEN Raise(w, "ValueError")
    ELSE LET w1 == _check_okay_to_chain(w)
         IN  IF ~Ok(w1) THEN w1 ELSE [w1 EXCEPT !.self._batch_size = b]

skip(w, n) ==
    IF n < 0
    THEN Raise(w, "ValueError")
    ELSE LET w1 == _check_okay_to_chain(w)
         IN  IF ~Ok(w1) THEN w1 ELSE [w1 EXCEPT !.self._skip = n]

max_time_ms(w, v) ==
    LET w1 == _check_okay_to_chain(w)
    IN  IF ~Ok(w1) THEN w1 ELSE [w1 EXCEPT !.self._max_time_ms = v]

max_await_time_ms(w, v) ==
    LET w1 == _check_okay_to_chain(w)
    IN  IF ~Ok(w1) THEN w1
        ELSE IF w1.self._query_flags \cap TAILABLE_AWAIT # {}
        THEN [w1 EXCEPT !.self._max_await_time_ms = v]
        ELSE w1

max_scan(w, v) ==
    LET w1 == _check_okay_to_chain(w)
    IN  IF ~Ok(w1) THEN w1 ELSE [w1 EXCEPT !.self._max_scan = v]

max(w, spec) ==
    LET w1 == _check_okay_to_chain(w)
    IN  IF ~Ok(w1) THEN w1 ELSE [w1 EXCEPT !.self._max = Some(spec)]

min(w, spec) ==
    LET w1 == _check_okay_to_chain(w)
    IN  IF ~Ok(w1) THEN w1 ELSE [w1 EXCEPT !.self._min = Some(spec)]

sort(w, keys) ==
    LET w1 == _check_okay_to_chain(w)
    IN  IF ~Ok(w1) THEN w1 ELSE [w1 EXCEPT !.self._ordering = Some(keys)]

hint(w, index) ==
    LET w1 == _check_okay_to_chain(w)
    IN  IF ~Ok(w1) THEN w1 ELSE [w1 EXCEPT !.self._hint = index]

comment(w, v) ==
    LET w1 == _check_okay_to_chain(w)
    IN  IF ~Ok(w1) THEN w1 ELSE [w1 EXCEPT !.self._comment = v]

where(w, code) ==
    LET w1 == _check_okay_to_chain(w)
    IN  IF ~Ok(w1) THEN w1 ELSE [w1 EXCEPT !.self._spec = @ \cup {"$where"}]

collation(w, v) ==
    LET w1 == _check_okay_to_chain(w)
    IN  IF ~Ok(w1) THEN w1 ELSE [w1 EXCEPT !.self._collation = v]

\* __getitem__ with a slice(start, stop, step); each part is None or Some(int)
_getitem_slice_keeping_skip(w, start, stop, step) ==
    LET w1 == _check_okay_to_chain(w)
        w2 == [w1 EXCEPT !.self._empty = FALSE]
        skp == IF start # None THEN start[1] ELSE w.self._skip
        lim == IF stop # None THEN stop[1] - skp ELSE 0
    IN  IF ~Ok(w1) THEN w1
        ELSE IF step # None THEN Raise(w2, "IndexError")
        ELSE IF start # None /\ start[1] < 0 THEN Raise(w2, "IndexError")
        ELSE IF stop # None /\ lim < 0 THEN Raise(w2, "IndexError")
        ELSE [w2 EXCEPT !.self._empty = (stop # None /\ lim = 0),
                        !.self._skip = skp, !.self._limit = lim]

_getitem_slice(w, start, stop, step) ==
    LET w1 == _check_okay_to_chain(w)
        w2 == [w1 EXCEPT !.self._empty = FALSE]
        skp == IF start # None THEN start[1] ELSE 0
        lim == IF stop # None THEN stop[1] - skp ELSE 0
    IN  IF ~Ok(w1) THEN w1
        ELSE IF step # None THEN Raise(w2, "IndexError")
        ELSE IF start # None /\ start[1] < 0 THEN Raise(w2, "IndexError")
        ELSE IF stop # None /\ lim < 0 THEN Raise(w2, "IndexError")
        ELSE [w2 EXCEPT !.self._empty = (stop # None /\ lim = 0),
                        !.self._skip = skp, !.self._limit = lim]

(* ------------------------- clone, cursor[index] ----------------------- *)
\* _clone_base, then base.__dict__.update(values_to_clone)
_clone(c) ==
    [Cursor(NON_TAILABLE, 0, 0, IF c._explicit_session THEN c._session ELSE None,
            None)
       EXCEPT !._spec = c._spec, !._skip = c._skip, !._limit = c._limit,
              !._max_time_ms = c._max_time_ms,
              !._max_await_time_ms = c._max_await_time_ms,
              !._comment = c._comment, !._max = c._max, !._min = c._min,
              !._ordering = c._ordering, !._explain = c._explain,
              !._hint = c._hint, !._batch_size = c._batch_size,
              !._max_scan = c._max_scan, !._query_flags = c._query_flags,
              !._collation = c._collation, !._empty = c._empty,
              !._allow_disk_use = c._allow_disk_use, !._exhaust = c._exhaust,
              !._has_filter = c._has_filter, !._cursor_type = c._cursor_type]

\* what a call leaves on record about the clone it made
Cloned(wc) == Some([cursor |-> wc.self, exch |-> wc.obs.exch, cleanups |-> wc.obs.cleanups])

clone(w) == [w EXCEPT !.obs.clone = Cloned([w EXCEPT !.self = _clone(w.self)])]

\* __getitem__ with an int: the query runs on a clone, which is dropped
\* (finalized) when the call returns.
\* clone.limit(-1), a hard limit
_limit_clone(c) == IF Ok(c) THEN limit(c, 0 - 1) ELSE c

\* clone._query_flags &= ~CursorType.TAILABLE_AWAIT; for doc in clone
_next_clone(c, sc) ==
    IF Ok(c) THEN next([c EXCEPT !.self._query_flags = @ \ TAILABLE_AWAIT], sc) ELSE c

_iterate_clone_unlimited(c, n, sc) == _next_clone(skip(c, n), sc)

_iterate_clone(c, n, sc) == _next_clone(_limit_clone(skip(c, n)), sc)

\* the receiver w after the clone, iterated to c and finalized to d
_getitem_return(w, c, d) ==
    [w EXCEPT !.client = d.client, !.server = d.server,
              !.obs.result = IF c.obs.result = "StopIteration" THEN "IndexError"
                             ELSE c.obs.result,
              !.obs.returned = c.obs.returned,
              !.obs.clone = Cloned(d)]

_getitem_drop(w, c) == _getitem_return(w, c, _die_no_lock(c))

_getitem_checked_any_index(w, index, sc) ==
    _getitem_drop(w, _iterate_clone([w EXCEPT !.self = _clone(w.self)],
                                    index + w.self._skip, sc))

_getitem_checked(w, index, sc) ==
    IF index < 0
    THEN Raise(w, "IndexError")
    ELSE _getitem_drop(w, _iterate_clone([w EXCEPT !.self = _clone(w.self)],
                                         index + w.self._skip, sc))

_getitem_int(w, index, sc) ==
    LET w1 == _check_okay_to_chain(w)
    IN  IF ~Ok(w1) THEN w1
        ELSE _getitem_checked([w1 EXCEPT !.self._empty = FALSE], index, sc)

\* __del__
_del(w) == _die_no_lock(w)

(* ------------------------------ the inputs ---------------------------- *)
\* scripts of a call that starts with the initial query (first) or not, and
\* makes at most one exchange or several (loops)
\* (server A answers in the collection's namespace, server B overrides it)
Responses(first) ==
    {sc \in [total : 0..MaxDocs, k : 1..MaxBatch, eager : BOOLEAN,
             form : {"command", "legacy"},
             addr : IF first THEN Addrs ELSE {"A"},
             ns : IF first THEN {None, Some(OtherNs)} ELSE {None},
             fault : {NoFault}, at : {1}] :
        /\ sc.form = "legacy" => sc.ns = None
        /\ sc.ns # None <=> sc.addr = "B"}

Quiet == [total |-> 0, k |-> 1, eager |-> TRUE, form |-> "command", addr |-> "A",
          ns |-> None, fault |-> NoFault, at |-> 1]

Scripts(first, loops) ==
    Responses(first)
    \cup {[Quiet EXCEPT !.fault = f] : f \in Faults \ {NoFault}}
    \cup IF loops
         THEN {[Quiet EXCEPT !.total = MaxDocs, !.k = k, !.fault = f, !.at = 2] :
                  k \in 1..MaxBatch, f \in Faults \ {NoFault}}
         ELSE {}

\* the scripts that can make a difference to a call on cursor c
ScriptsFor(c, loops) ==
    IF c._killed \/ c._empty \/ (~loops /\ Len(c._data) > 0)
    THEN {Quiet}
    ELSE Scripts(c._id = None, loops)

Limits == {0 - 1, 0, 1, 2}
BatchSizes == {0 - 1, 0, 1, 2}
Skips == {0 - 1, 0, 1}
Masks == {TAILABLE, TAILABLE_AWAIT, EXHAUST}
Lengths == {None, Some(0), Some(1), Some(2)}
Starts == {None, Some(0 - 1), Some(0), Some(1)}
Stops == {None, Some(0), Some(1), Some(2)}
\* a step is refused whatever the bounds are
Slices ==
    {[start |-> a, stop |-> b, step |-> None] : a \in Starts, b \in Stops}
    \cup {[start |-> None, stop |-> None, step |-> Some(2)]}
Indexes == {0 - 1, 0, 1}

\* the responses explored while the configuration calls are
Thin == {[Quiet EXCEPT !.total = t, !.k = MaxBatch] : t \in {0, MaxBatch}}

ThinFor(c) == IF c._killed \/ c._empty THEN {Quiet} ELSE Thin

Threads == 1..NThreads

\* the responses of a server whose collection holds 5 small documents: it
\* fills every batch asked for, and closes the server cursor with the
\* batch that reaches the end
FiveDocs ==
    {sc \in [total : {5}, k : {2, 5}, eager : {TRUE}, form : {"command", "legacy"},
             addr : Addrs, ns : {None, Some(OtherNs)}, fault : {NoFault}, at : {1}] :
        sc.form = "legacy" => sc.ns = None}

(* ------------------------------- actions ------------------------------ *)
W == [self |-> self, client |-> client, server |-> server, obs |-> obs]

Live == obs.op # "__del__"

Commit(w) ==
    /\ self' = w.self
    /\ client' = w.client
    /\ server' = w.server
    /\ obs' = w.obs
    /\ UNCHANGED <<mgr, pc, unpins>>

\* a configuration call: the ones that succeed are counted
Configure(w) ==
    /\ Ok(w) => obs.setters < MaxSetterCalls
    /\ Commit(IF Ok(w) THEN [w EXCEPT !.obs.setters = @ + 1] ELSE w)

DoNext ==
    /\ Live
    /\ \E sc \in ScriptsFor(self, FALSE) : Commit(next(Begin(W, "next"), sc))

DoToList ==
    /\ Live
    /\ \E length \in Lengths :
       \E sc \in IF length = Some(0) THEN {Quiet} ELSE ScriptsFor(self, TRUE) :
          Commit(to_list(Begin(W, "to_list"), length, sc))

DoClose == Live /\ Commit(close(Begin(W, "close")))

\* next() and to_list() against the collection of 5 documents
DoNextOfFive == \E sc \in FiveDocs : Commit(next(Begin(W, "next"), sc))

DoToListOfFive ==
    \E length \in Lengths \ {Some(0)}, sc \in FiveDocs :
        Commit(to_list(Begin(W, "to_list"), length, sc))

DoRewind == Live /\ Commit(rewind(Begin(W, "rewind")))

DoDel == Live /\ Commit(_del(Begin(W, "__del__")))

\* next() and to_list() as explored between configuration calls
DoStep == \E sc \in ThinFor(self) : Commit(next(Begin(W, "next"), sc))

DoDrain ==
    \E length \in {None, Some(0), Some(1)} : \E sc \in ThinFor(self) :
        Commit(to_list(Begin(W, "to_list"), length, sc))

DoClone == Commit(clone(Begin(W, "clone")))

DoGetItemInt ==
    \E index \in Indexes : \E sc \in ThinFor(_clone(self)) :
        Commit(_getitem_int(Begin(W, "getitem_int"), index, sc))

DoGetItemSlice ==
    \E s \in Slices :
        Configure(_getitem_slice(Begin(W, "getitem_slice"), s.start, s.stop, s.step))

DoAddOption ==
    \E mask \in Masks, is_mongos \in BOOLEAN :
        Configure(add_option(Begin(W, "add_option"), mask, is_mongos))

DoRemoveOption ==
    \E mask \in Masks : Configure(remove_option(Begin(W, "remove_option"), mask))

DoLimit == \E l \in Limits : Configure(limit(Begin(W, "limit"), l))

DoBatchSize == \E b \in BatchSizes : Configure(batch_size(Begin(W, "batch_size"), b))

DoSkip == \E n \in Skips : Configure(skip(Begin(W, "skip"), n))

DoAllowDiskUse == Configure(allow_disk_use(Begin(W, "allow_disk_use"), TRUE))

DoMaxTimeMs == Configure(max_time_ms(Begin(W, "max_time_ms"), Some(1)))

DoMaxAwaitTimeMs == Configure(max_await_time_ms(Begin(W, "max_await_time_ms"), Some(1)))

DoMaxScan == Configure(max_scan(Begin(W, "max_scan"), Some(1)))

DoMax == Configure(max(Begin(W, "max"), "a"))

DoMin == Configure(min(Begin(W, "min"), "a"))

DoSort == Configure(sort(Begin(W, "sort"), "a"))

DoHint == \E index \in {None, Some("a")} : Configure(hint(Begin(W, "hint"), index))

DoComment == Configure(comment(Begin(W, "comment"), Some("c")))

DoWhere == Configure(where(Begin(W, "where"), "code"))

DoCollation == Configure(collation(Begin(W, "collation"), Some("en")))

(* ------------- _ConnectionManager.close, one step at a time ----------- *)
\* Thread t calls close() on the shared manager.  Nothing in close() takes
\* the manager's lock, so another thread may run between any two steps.
MgrCall(t) ==
    /\ pc[t].at = "idle"
    /\ pc[t].calls < MaxCloseCalls
    /\ pc' = [pc EXCEPT ![t].at = "test", ![t].calls = @ + 1]
    /\ UNCHANGED <<self, client, server, obs, mgr, unpins>>

\* if self.conn:
MgrTest(t) ==
    /\ pc[t].at = "test"
    /\ pc' = [pc EXCEPT ![t].at = IF mgr.conn # None THEN "unpin" ELSE "idle"]
    /\ UNCHANGED <<self, client, server, obs, mgr, unpins>>

\* self.conn.unpin(): an AttributeError when self.conn is None by now
MgrUnpin(t) ==
    /\ pc[t].at = "unpin"
    /\ IF mgr.conn # None
       THEN /\ unpins' = unpins + 1
            /\ pc' = [pc EXCEPT ![t].at = "clear"]
       ELSE /\ unpins' = unpins
            /\ pc' = [pc EXCEPT ![t].at = "idle", ![t].err = TRUE]
    /\ UNCHANGED <<self, client, server, obs, mgr>>

\* self.conn = None
MgrClear(t) ==
    /\ pc[t].at = "clear"
    /\ mgr' = [mgr EXCEPT !.conn = None]
    /\ pc' = [pc EXCEPT ![t].at = "idle"]
    /\ UNCHANGED <<self, client, server, obs, unpins>>

(* --------------------------- the specifications ----------------------- *)
InitObs ==
    [op |-> "__init__", prev |-> "other", result |-> "ok", returned |-> <<>>,
     delivered |-> <<>>, cleanups |-> <<>>, kills |-> 0, exch |-> <<>>,
     recv |-> 0, fault |-> NoFault, setters |-> 0, clone |-> None]

InitWorld(cursor_types, limits, batch_sizes, sessions, encrypters, lets) ==
    /\ \E cursor_type \in cursor_types, l \in limits, b \in batch_sizes,
          session \in sessions, encrypter \in encrypters, let \in lets :
          /\ _supports_exhaust(cursor_type, l, FALSE) = "ok"
          /\ encrypter => cursor_type = EXHAUST
          /\ self = Cursor(cursor_type, l, b, session, let)
          /\ client = [_encrypter |-> encrypter, pinned |-> {}, unpinned |-> 0,
                       sessions |-> 0]
    /\ server = [sent |-> 0, limit |-> 0]
    /\ obs = InitObs

NoManager ==
    /\ mgr = [conn |-> None, more_to_come |-> FALSE]
    /\ pc = [t \in Threads |-> [at |-> "idle", calls |-> MaxCloseCalls, err |-> FALSE]]
    /\ unpins = 0

\* The cursor's protocol: a cursor as constructed, then iterated, closed,
\* rewound, finalized, under every script of the environment.
Init ==
    /\ InitWorld({NON_TAILABLE, TAILABLE_AWAIT, EXHAUST}, {0, 2}, {0, 1},
                 {None, Some("explicit")}, BOOLEAN, {None})
    /\ NoManager

Next ==
    \/ DoNext
    \/ DoToList
    \/ DoClose
    \/ DoRewind
    \/ DoDel

Spec == Init /\ [][Next]_vars

\* The cursor's configuration: a cursor constructed with defaults, then any
\* MaxSetterCalls configuration calls, iterated under the thin scripts.
InitConfig ==
    /\ InitWorld({NON_TAILABLE, EXHAUST}, {0}, {0}, {None}, {FALSE}, {None})
    /\ NoManager

NextConfig ==
    \/ DoStep
    \/ DoDrain
    \/ DoClose
    \/ DoRewind
    \/ DoClone
    \/ DoGetItemInt
    \/ DoGetItemSlice
    \/ DoAddOption
    \/ DoRemoveOption
    \/ DoLimit
    \/ DoBatchSize
    \/ DoSkip
    \/ DoAllowDiskUse
    \/ DoMaxTimeMs
    \/ DoMaxAwaitTimeMs
    \/ DoMaxScan
    \/ DoMax
    \/ DoMin
    \/ DoSort
    \/ DoHint
    \/ DoComment
    \/ DoWhere
    \/ DoCollation

SpecConfig == InitConfig /\ [][NextConfig]_vars

\* The connection manager shared by NThreads threads, each calling close()
\* up to MaxCloseCalls times.
InitManager ==
    /\ InitWorld({EXHAUST}, {0}, {0}, {None}, {FALSE}, {None})
    /\ mgr = [conn |-> Some("c1"), more_to_come |-> TRUE]
    /\ pc = [t \in Threads |-> [at |-> "idle", calls |-> 0, err |-> FALSE]]
    /\ unpins = 0

NextManager ==
    \E t \in Threads : MgrCall(t) \/ MgrTest(t) \/ MgrUnpin(t) \/ MgrClear(t)

SpecManager == InitManager /\ [][NextManager]_vars

\* Cloning: a cursor constructed with or without let, evaluated any
\* distance, cloned, closed, rewound.
InitClone ==
    /\ InitWorld(CursorTypes, {0, 2}, {0, 1}, {None, Some("explicit")}, {FALSE},
                 {None, Some("vars")})
    /\ NoManager

NextClone ==
    \/ DoNext
    \/ DoClone
    \/ DoClose
    \/ DoRewind

SpecClone == InitClone /\ [][NextClone]_vars

\* Plain iteration: find({}) with limit 0 and batch size 2 against a
\* collection of 5 documents, iterated by next() and to_list().
InitFive ==
    /\ InitWorld({NON_TAILABLE}, {0}, {2}, {None, Some("explicit")}, {FALSE}, {None})
    /\ NoManager

NextFive ==
    \/ DoNextOfFive
    \/ DoToListOfFive

SpecFive == InitFive /\ [][NextFive]_vars

\* Hard limits: a cursor constructed with a negative limit, under every
\* script of the environment.
InitHard ==
    /\ InitWorld({NON_TAILABLE, TAILABLE_AWAIT}, {0 - 1, 0 - 2}, {0, 1},
                 {None, Some("explicit")}, {FALSE}, {None})
    /\ NoManager

NextHard ==
    \/ DoNext
    \/ DoToList
    \/ DoClose
    \/ DoRewind
    \/ DoDel

SpecHard == InitHard /\ [][NextHard]_vars

\* A limit above every batch: a cursor with limit 3 and any batch size up
\* to MaxBatch, iterated, closed and rewound under every script.
InitLimit ==
    /\ InitWorld({NON_TAILABLE}, {3}, 0..MaxBatch, {None}, {FALSE}, {None})
    /\ NoManager

NextLimit ==
    \/ DoNext
    \/ DoToList
    \/ DoClose
    \/ DoRewind

SpecLimit == InitLimit /\ [][NextLimit]_vars

\* the responses of a server that ends: the collection of 5 documents,
\* the initial query possibly answered with an empty first batch and an
\* open server cursor
Ending(c) ==
    IF c._id = None
    THEN FiveDocs \cup {[Quiet EXCEPT !.k = MaxBatch, !.eager = FALSE]}
    ELSE FiveDocs

DoNextToEnd == \E sc \in Ending(self) : Commit(next(Begin(W, "next"), sc))

\* Iteration to the end: a cursor that is not tailable, whose caller calls
\* next() again and again, against a server whose every exchange succeeds
\* and that reports cursor id 0 after finitely many batches.
InitEnd ==
    /\ InitWorld({NON_TAILABLE, EXHAUST}, {0, 2}, {0, 1, 2},
                 {None, Some("explicit")}, {FALSE}, {None})
    /\ NoManager

NextEnd ==
    \/ DoNextToEnd

SpecEnd == InitEnd /\ [][NextEnd]_vars /\ WF_vars(DoNextToEnd)

(* ------------------------------ properties ---------------------------- *)
\* the fields a configuration call may set
Config(c) ==
    [spec |-> c._spec, skip |-> c._skip, limit |-> c._limit,
     batch_size |-> c._batch_size, ordering |-> c._ordering,
     max_scan |-> c._max_scan, explain |-> c._explain, comment |-> c._comment,
     max_time_ms |-> c._max_time_ms, max_await_time_ms |-> c._max_await_time_ms,
     max |-> c._max, min |-> c._min, collation |-> c._collation,
     allow_disk_use |-> c._allow_disk_use, hint |-> c._hint, empty |-> c._empty,
     query_flags |-> c._query_flags, exhaust |-> c._exhaust]

\* _check_okay_to_chain's condition
Used(c) == c._retrieved # 0 \/ c._id # None

\* the call fails with InvalidOperation and leaves the configuration alone
Frozen(w) == w.obs.result = "InvalidOperation" /\ Config(w.self) = Config(self)

\* every configuration call, with batch sizes bs and skips ss, is refused
AllFrozen(bs, ss) ==
    /\ \A l \in Limits : Frozen(limit(Begin(W, "limit"), l))
    /\ \A b \in bs : Frozen(batch_size(Begin(W, "batch_size"), b))
    /\ \A n \in ss : Frozen(skip(Begin(W, "skip"), n))
    /\ \A mask \in Masks, is_mongos \in BOOLEAN :
          Frozen(add_option(Begin(W, "add_option"), mask, is_mongos))
    /\ \A mask \in Masks : Frozen(remove_option(Begin(W, "remove_option"), mask))
    /\ \A s \in Slices :
          Frozen(_getitem_slice(Begin(W, "getitem_slice"), s.start, s.stop, s.step))
    /\ \A index \in Indexes : Frozen(_getitem_int(Begin(W, "getitem_int"), index, Quiet))
    /\ \A index \in {None, Some("a")} : Frozen(hint(Begin(W, "hint"), index))
    /\ Frozen(allow_disk_use(Begin(W, "allow_disk_use"), TRUE))
    /\ Frozen(max_time_ms(Begin(W, "max_time_ms"), Some(1)))
    /\ Frozen(max_await_time_ms(Begin(W, "max_await_time_ms"), Some(1)))
    /\ Frozen(max_scan(Begin(W, "max_scan"), Some(1)))
    /\ Frozen(max(Begin(W, "max"), "a"))
    /\ Frozen(min(Begin(W, "min"), "a"))
    /\ Frozen(sort(Begin(W, "sort"), "a"))
    /\ Frozen(comment(Begin(W, "comment"), Some("c")))
    /\ Frozen(where(Begin(W, "where"), "code"))
    /\ Frozen(collation(Begin(W, "collation"), Some("en")))

\* C1: a close() that directly follows a close() raises nothing and hands
\* cursor id 0 (no kill) to the client's cleanup; the two calls together
\* forward at most one kill for the server cursor.
C1_SecondCloseKillsNothing ==
    [][(obs.op = "close" /\ obs'.op = "close")
       => /\ obs'.result = "ok"
          /\ Len(obs'.cleanups) = 1
          /\ obs'.cleanups[1].cursor_id = 0
          /\ obs'.kills = obs.kills
          /\ obs'.kills <= 1]_vars

\* a second close() after a first one that forwarded the kill of a live cursor
C1_Witness ==
    /\ obs.op = "close" /\ obs.prev = "close" /\ obs.result = "ok"
    /\ IdTruthy(self._id) /\ obs.kills = 1
    /\ Len(obs.cleanups) = 1 /\ obs.cleanups[1].cursor_id = 0

\* C2 as stated: on a used cursor every configuration call with an argument
\* of the right type fails with InvalidOperation and changes nothing.
C2_AnyArgumentFrozen == Used(self) => AllFrozen(BatchSizes, Skips)

\* C2, amended: on a used cursor every configuration call with an argument
\* of the right type and in range (batch_size >= 0, skip >= 0) fails with
\* InvalidOperation and changes no configuration field; a negative
\* batch_size or skip fails with ValueError instead, changing nothing either.
C2_InRangeFrozen ==
    Used(self) =>
       /\ AllFrozen({b \in BatchSizes : b >= 0}, {n \in Skips : n >= 0})
       /\ \A b \in {b \in BatchSizes : b < 0} :
             /\ batch_size(Begin(W, "batch_size"), b).obs.result = "ValueError"
             /\ batch_size(Begin(W, "batch_size"), b).self = self
       /\ \A n \in {n \in Skips : n < 0} :
             /\ skip(Begin(W, "skip"), n).obs.result = "ValueError"
             /\ skip(Begin(W, "skip"), n).self = self

\* a configuration call refused on a cursor that holds a batch
C2_Witness ==
    /\ Used(self) /\ Len(self._data) > 0
    /\ obs.op = "batch_size" /\ obs.result = "InvalidOperation"

\* C3: with a limit L > 0 no more than L documents are handed out, and a
\* cursor whose server cursor is still open once L documents are retrieved
\* has been closed, its kill forwarded, by the exchange that got there.
C3_LimitEnforced ==
    self._limit > 0 =>
       /\ Len(obs.delivered) <= self._limit
       /\ (IdTruthy(self._id) /\ self._retrieved >= self._limit)
             => (self._killed /\ obs.kills = 1)

\* all L documents handed out, the open server cursor killed at the limit
C3_Witness ==
    /\ self._limit > 0 /\ Len(obs.delivered) = self._limit
    /\ IdTruthy(self._id) /\ self._retrieved = self._limit
    /\ self._killed /\ obs.kills = 1

\* C4: no cursor has exhaust together with a nonzero limit.
C4_ExhaustExcludesLimit == ~(self._exhaust /\ self._limit # 0)

\* C5: a call on a killed cursor, rewind() apart, makes no exchange.
C5_KilledNeverFetches ==
    [][(self._killed /\ obs'.op # "rewind") => obs'.exch = <<>>]_vars

\* next() on a cursor closed before its first query
C5_Witness ==
    /\ obs.op = "next" /\ obs.prev = "close" /\ self._killed /\ self._id = None
    /\ obs.exch = <<>> /\ obs.result = "StopIteration"

\* C6: whatever the threads do, the manager's connection is unpinned at
\* most once and no close() fails.
C6_UnpinnedAtMostOnce == unpins <= 1 /\ \A t \in Threads : ~pc[t].err

\* C7: at most one connection is pinned, and while the cursor has a manager
\* it is the one made from the first pinned response, whose connection
\* (the find's, "c1") is the only pinned one.
C7_OnePinnedConnection ==
    /\ Cardinality(client.pinned) <= 1
    /\ self._sock_mgr # None
          => /\ self._exhaust
             /\ self._sock_mgr[1].conn = Some("c1")
             /\ client.pinned = {"c1"}
    /\ self._sock_mgr = None => client.pinned = {}

\* an exhaust cursor after a fetch-more, still streaming
C7_Witness ==
    /\ self._exhaust /\ self._sock_mgr # None /\ client.pinned = {"c1"}
    /\ Len(obs.exch) > 0 /\ obs.exch[Len(obs.exch)].name = "getMore"

\* C8: when a call ends with an OperationFailure, a ConnectionFailure or an
\* interrupt, the cursor is killed, has no manager and nothing pinned, and
\* its implicit session is ended.
C8_CleanedUpOnError ==
    obs.result \in {"OperationFailure", "ConnectionFailure", "BaseException"}
       => /\ self._killed
          /\ self._sock_mgr = None /\ client.pinned = {}
          /\ ~self._explicit_session => (self._session = None /\ client.sessions = 0)

\* an interrupt in the middle of an exhaust stream
C8_Witness ==
    /\ obs.result = "BaseException" /\ self._exhaust /\ IdTruthy(self._id)
    /\ self._killed /\ client.unpinned = 1 /\ client.pinned = {}

\* C9: a cursor-closed OperationFailure on a tailable cursor ends the call
\* without an error, and the cursor is no longer alive.
C9_TailableSwallowsCursorClosed ==
    (/\ obs.fault.kind = "OperationFailure" /\ obs.fault.closed
     /\ "tailable_cursor" \in self._query_flags)
       => obs.result \in {"ok", "StopIteration"} /\ ~alive(self)

\* next() on a tailable cursor whose fetch-more met a closed cursor
C9_Witness ==
    /\ obs.fault.kind = "OperationFailure" /\ obs.fault.closed
    /\ "tailable_cursor" \in self._query_flags
    /\ obs.op = "next" /\ obs.result = "StopIteration"
    /\ IdTruthy(self._id) /\ self._killed /\ self._data = <<>>

\* C10: after every call the retrieved count is the number of documents
\* received since the last rewind, and only rewind() lowers it.
C10_RetrievedIsSumOfBatches ==
    [][/\ self'._retrieved = obs'.recv
       /\ obs'.op # "rewind" => self'._retrieved >= self._retrieved]_vars

\* a collection read to its end in several batches
C10_Witness ==
    /\ self._retrieved = MaxDocs /\ obs.recv = MaxDocs /\ Len(obs.exch) > 0
    /\ obs.exch[Len(obs.exch)].name = "getMore"

\* the call r handed out nothing, raised no error and made no exchange
NoFetch(r) ==
    /\ r.obs.exch = <<>> /\ r.obs.returned = <<>>
    /\ r.obs.result \in {"ok", "StopIteration"}

\* the slice succeeded and iterating the cursor w it left fetches nothing
EmptyAfter(w) ==
    /\ Ok(w)
    /\ \A sc \in Thin :
          /\ NoFetch(next(Begin(w, "next"), sc))
          /\ \A length \in {None, Some(1)} :
                NoFetch(to_list(Begin(w, "to_list"), length, sc))

C12_ExhaustedReleasesAtOnce ==
    [][/\ self'._id = Some(0)
          => /\ self'._killed
             /\ self'._sock_mgr = None /\ client'.pinned = {}
             /\ ~self'._explicit_session
                   => (self'._session = None /\ client'.sessions = 0)
             /\ obs'.kills = 0
             /\ Len(obs'.delivered) + Len(self'._data) = obs'.recv
       /\ (self._id = Some(0) /\ Len(self._data) > 0 /\ obs'.op = "next")
          => /\ obs'.result = "ok"
             /\ obs'.returned = <<Head(self._data)>>
             /\ self'._data = Tail(self._data)]_vars

\* an exhaust cursor whose first response carried id 0 and two documents,
\* one of them handed out
C12_Witness ==
    /\ self._id = Some(0) /\ self._killed /\ self._exhaust
    /\ self._sock_mgr = None /\ client.pinned = {} /\ client.unpinned = 1
    /\ self._session = None /\ obs.kills = 0
    /\ Len(self._data) = 1 /\ Len(obs.delivered) = 1 /\ obs.op = "next"

\* a cursor whose next fetch is its initial query
Unstarted(c) == c._id = None /\ ~c._killed /\ ~c._empty /\ c._data = <<>>

\* C13: next() or to_list() on an unstarted cursor with min or max set
\* fails with InvalidOperation before any exchange when no hint is set,
\* and sends the initial query when a hint is set.
C13_MinMaxNeedsHint ==
    [][(/\ Unstarted(self)
        /\ self._min # None \/ self._max # None
        /\ obs'.op \in {"next", "to_list"} /\ obs'.result # "ValueError")
          => IF self._hint = None
             THEN obs'.result = "InvalidOperation" /\ obs'.exch = <<>>
             ELSE /\ obs'.result # "InvalidOperation"
                  /\ Len(obs'.exch) >= 1 /\ obs'.exch[1].name = "find"]_vars

\* next() refused on a cursor with min and no hint
C13_Witness ==
    /\ obs.op = "next" /\ obs.result = "InvalidOperation" /\ obs.exch = <<>>
    /\ self._min # None /\ self._hint = None /\ self._id = None

\* the call r failed with IndexError; neither it nor a clone made an exchange
IndexErrorUnsent(r) ==
    r.obs.result = "IndexError" /\ r.obs.exch = <<>> /\ r.obs.clone = None

\* C14: on an unstarted cursor a slice with a step, a slice with a
\* negative start and a negative integer index each fail with IndexError
\* without an exchange.
C14_BadIndexFailsUnsent ==
    ~Used(self) =>
       /\ \A a \in Starts, b \in Stops, c \in {None, Some(2)} :
             (c # None \/ (a # None /\ a[1] < 0))
                => IndexErrorUnsent(_getitem_slice(Begin(W, "getitem_slice"), a, b, c))
       /\ \A index \in {i \in Indexes : i < 0}, sc \in Thin :
             IndexErrorUnsent(_getitem_int(Begin(W, "getitem_int"), index, sc))

\* cursor[-1] refused on an unstarted cursor
C14_Witness ==
    /\ ~Used(self) /\ obs.op = "getitem_int" /\ obs.result = "IndexError"
    /\ obs.clone = None /\ obs.exch = <<>>

\* C15: a next() or to_list() that fails with InvalidOperation has made no
\* exchange and leaves every field of the cursor as it was.
C15_InvalidOperationChangesNothing ==
    [][(obs'.op \in {"next", "to_list"} /\ obs'.result = "InvalidOperation")
          => (obs'.exch = <<>> /\ self' = self)]_vars

\* the documents the environment delivered during the call that led to r
ReceivedIn(r) ==
    Range((IF self._id = None THEN 0 ELSE server.sent) + 1,
          (IF self._id = None THEN 0 ELSE server.sent) + r.obs.recv - obs.recv)

\* to_list(length) refused: length is given and less than 1
ToListRefused(r) ==
    r.obs.result = "ValueError" /\ r.obs.exch = <<>> /\ r.self = self

\* at most length documents, and they are the buffered documents followed
\* by the received ones, in that order, the rest left in the buffer
ToListInOrder(length, r) ==
    /\ length # None => Len(r.obs.returned) <= length[1]
    /\ r.obs.returned \o r.self._data = self._data \o ReceivedIn(r)

\* to_list returned fewer than length documents (or length was not given)
ToListShort(length, r) == length = None \/ Len(r.obs.returned) < length[1]

\* a cursor that starts with nothing left: EMPTY, or exhausted and drained
NothingLeft(c) == c._empty \/ (c._id = Some(0) /\ c._data = <<>>)

\* the loop was left with the cursor no longer alive
StoppedDead(r) == r.self._empty \/ ~alive(r.self)

\* the loop was left with the buffer drained and the cursor no longer
\* alive, or its last fetch having come back without a document
StoppedDrained(r) ==
    /\ r.self._data = <<>>
    /\ \/ r.self._empty
       \/ ~alive(r.self)
       \/ (r.obs.exch # <<>> /\ r.obs.exch[Len(r.obs.exch)].got = 0)

\* to_list(length) seen as the call r it makes from the present state; a
\* short result needs a dead cursor when strict, a drained one otherwise
ToListChecked(length, r, strict) ==
    IF length # None /\ length[1] < 1
    THEN ToListRefused(r)
    ELSE /\ Ok(r) => /\ ToListInOrder(length, r)
                     /\ ToListShort(length, r)
                           => IF strict THEN StoppedDead(r) ELSE StoppedDrained(r)
         /\ NothingLeft(self)
               => (Ok(r) /\ r.obs.returned = <<>> /\ r.obs.exch = <<>>)

\* C16 as stated: to_list(length) fails with ValueError and no exchange
\* when length < 1; otherwise it returns at most length documents in
\* order and stops short of length only once the cursor is not alive; it
\* returns [] without an error on a cursor that starts exhausted or EMPTY.
C16_ToListStopsOnlyWhenDead ==
    \A length \in Lengths :
       \A sc \in IF length = Some(0) THEN {Quiet} ELSE ScriptsFor(self, TRUE) :
          ToListChecked(length, to_list(Begin(W, "to_list"), length, sc), TRUE)

\* C16, amended: as stated, but to_list also stops short of length, with
\* the cursor still alive, when a fetch comes back without a document.
C16_ToListStopsWhenDrained ==
    \A length \in Lengths :
       \A sc \in IF length = Some(0) THEN {Quiet} ELSE ScriptsFor(self, TRUE) :
          ToListChecked(length, to_list(Begin(W, "to_list"), length, sc), FALSE)

\* to_list(2) filled from two batches of one document
C16_Witness ==
    /\ obs.op = "to_list" /\ obs.result = "ok"
    /\ Len(obs.returned) = 2 /\ Len(obs.exch) = 2
    /\ obs.exch[1].got = 1 /\ obs.exch[2].got = 1

\* the unevaluated state, with the configuration of the current state
Unevaluated(r) ==
    /\ r.self._id = None
    /\ r.self._data = <<>>
    /\ r.self._retrieved = 0
    /\ r.self._address = None
    /\ ~r.self._killed
    /\ r.self._sock_mgr = None
    /\ Config(r.self) = Config(self)

\* the one cleanup of the call asked for the live server cursor, if any
ClosedLive(r) ==
    /\ Len(r.obs.cleanups) = 1
    /\ r.obs.cleanups[1].cursor_id
          = (IF IdTruthy(self._id) /\ ~self._killed THEN self._id[1] ELSE 0)

\* the call's first exchange is an initial query, addressed to no server
IssuesQuery(n) ==
    /\ n.obs.exch # <<>>
    /\ n.obs.exch[1].name \in {"find", "explain"}
    /\ n.obs.exch[1].cursor_id = None
    /\ n.obs.exch[1].address = None

\* a cursor whose next() ends before any exchange
RefusedLocally(c) ==
    \/ c._empty
    \/ (c._min # None \/ c._max # None) /\ c._hint = None
    \/ client._encrypter /\ c._exhaust

Rewound(r, always) ==
    /\ Ok(r)
    /\ Unevaluated(r)
    /\ ClosedLive(r)
    /\ Ok(_check_okay_to_chain(r))
    /\ Ok(comment(Begin(r, "comment"), Some("c")))
    /\ (always \/ ~RefusedLocally(r.self))
          => \A sc \in Thin : IssuesQuery(next(Begin(r, "next"), sc))

\* C17 as stated: rewind() from any state closes the live server cursor,
\* leaves id null, buffer empty, retrieved 0, address null, killed false and
\* every option as it was, configuration calls are accepted again, and the
\* next iteration step issues a new initial query.
C17_RewindThenQueryAlways == Rewound(rewind(Begin(W, "rewind")), TRUE)

\* C17 amended: the same, the next iteration step issuing the initial query
\* unless the cursor is EMPTY or its configuration is refused locally
\* (min/max without hint, exhaust with auto-encryption).
C17_RewindThenQuery == Rewound(rewind(Begin(W, "rewind")), FALSE)

C17_Witness ==
    /\ obs.op = "rewind"
    /\ Len(obs.cleanups) = 1
    /\ obs.cleanups[1].cursor_id # 0
    /\ self._batch_size = 1
    /\ self._id = None
    /\ ~self._killed

\* every option of a cursor: the ones a call may set, and let
Options(c) == [config |-> Config(c), let |-> c._let]

\* the clone a call left on record is unevaluated and holds the options
\* and the explicit session of the current cursor
CloneOf(r) ==
    /\ Ok(r)
    /\ r.obs.clone # None
    /\ r.obs.clone[1].cursor._id = None
    /\ r.obs.clone[1].cursor._data = <<>>
    /\ r.obs.clone[1].cursor._retrieved = 0
    /\ ~r.obs.clone[1].cursor._killed
    /\ r.obs.clone[1].cursor._address = None
    /\ r.obs.clone[1].cursor._sock_mgr = None
    /\ r.obs.clone[1].exch = <<>>
    /\ r.obs.clone[1].cursor._session
          = (IF self._explicit_session THEN self._session ELSE None)
    /\ r.self = self
    /\ Options(r.obs.clone[1].cursor) = Options(self)

\* C18: clone() returns an unevaluated cursor, however far the original
\* has been evaluated, whose options (let among them) match the
\* original's; it shares the session only when that is explicit, and the
\* original is unchanged.
C18_CloneMatchesEveryOption == CloneOf(clone(Begin(W, "clone")))

\* the call on a cursor with both flags stores v; on any other it leaves
\* the stored value alone and raises nothing the guard does not raise
AwaitTimeStored(r, v) ==
    IF TAILABLE_AWAIT \subseteq self._query_flags
    THEN Ok(r) => r.self._max_await_time_ms = v
    ELSE /\ r.self._max_await_time_ms = self._max_await_time_ms
         /\ ~Used(self) => Ok(r)

\* C19: max_await_time_ms(v) stores v only on a cursor with both the
\* tailable and the await-data flag; on every other cursor, a tailable one
\* without await included, the call is ignored and the stored value stays.
C19_AwaitTimeOnlyWithAwait ==
    \A v \in {None, Some(1), Some(2)} :
        AwaitTimeStored(max_await_time_ms(Begin(W, "max_await_time_ms"), v), v)

\* exchange e was sent where the cursor's address says: an initial query
\* to no server in particular, a getMore to the server on record
SentTo(e, address) ==
    IF e.name = "getMore"
    THEN e.address # None /\ e.address = address
    ELSE e.address = None

\* C20: the address is null until a response has been handled, every
\* getMore goes to the address recorded from the initial query's response,
\* and a recorded address changes only by rewind().
C20_AddressFixedOnceSet ==
    [][/\ self'._address = None <=> self'._id = None
       /\ \A i \in 1..Len(obs'.exch) : SentTo(obs'.exch[i], self'._address)
       /\ (self._address # None /\ obs'.op # "rewind")
             => self'._address = self._address]_vars

C20_Witness ==
    /\ obs.op \in {"next", "to_list"}
    /\ Len(obs.exch) = 1
    /\ obs.exch[1].name = "getMore"
    /\ obs.exch[1].address = Some("B")
    /\ obs.exch[1].got > 0
    /\ self._address = Some("B")

\* exchange number j of the iteration of 5 documents by batches of 2
FiveByTwo(e, j) ==
    /\ j <= 3
    /\ e.got = <<2, 2, 1>>[j]
    /\ e.name = (IF j = 1 THEN "find" ELSE "getMore")

\* C21: find({}) with limit 0 and batch size 2 on 5 documents yields the 5
\* documents over 3 exchanges, an initial query and two getMores carrying
\* 2, 2 and 1 documents, ends with cursor id 0 and forwards no kill.
C21_FiveDocumentsInThreeBatches ==
    [][/\ \A i \in 1..Len(obs'.exch) :
             FiveByTwo(obs'.exch[i], ((obs.recv + 1) \div 2) + i)
       /\ obs'.kills = 0
       /\ obs'.delivered \o self'._data = Range(1, obs'.recv)
       /\ obs'.op = "next" => (Ok(W') \/ obs'.delivered = Range(1, 5))
       /\ ~alive(self') => obs'.delivered = Range(1, 5)
       /\ obs'.recv = 5 => self'._id = Some(0)]_vars

C21_Witness ==
    /\ obs.op = "to_list"
    /\ Len(obs.exch) = 3
    /\ obs.exch[3].got = 1
    /\ obs.returned = Range(1, 5)
    /\ self._id = Some(0)
    /\ obs.kills = 0

\* a slice the docstring of __getitem__ says is refused
RefusedSlice(s) ==
    \/ s.step # None
    \/ s.start # None /\ s.start[1] < 0
    \/ s.stop # None /\ s.stop[1] <= (IF s.start # None THEN s.start[1] ELSE 0)

\* C22: a slice with a step, with a negative start, or with a stop less
\* than or equal to its start raises IndexError.
C22_SliceStopNotAboveStartRaises ==
    ~Used(self) =>
        \A s \in {t \in Slices : RefusedSlice(t)} :
            _getitem_slice(Begin(W, "getitem_slice"), s.start, s.stop, s.step).obs.result
                = "IndexError"

\* what the caller was handed, then what is buffered, is what was received
Intact == obs.delivered \o self._data = Range(1, obs.recv)

\* the call handed out what it returned, and refilled only an empty buffer
HandedOut ==
    /\ obs'.op \in {"next", "to_list"} => obs'.delivered = obs.delivered \o obs'.returned
    /\ (obs'.op = "next" /\ obs'.exch # <<>>) => self._data = <<>>

\* C23 as stated: over any interleaving of next() and to_list(n) the
\* documents handed to the caller, followed by the buffered ones, are the
\* received batches in order, none lost, duplicated or reordered.
C23_NothingLostEver == [][HandedOut /\ (Intact => Intact')]_vars

\* C23 amended: the same over the calls that return; a to_list() that
\* raises hands out nothing (what it had collected is dropped).
C23_NothingLostUnlessToListRaises ==
    [][/\ HandedOut
       /\ IF obs'.op = "to_list" /\ ~Ok(W')
          THEN obs'.delivered = obs.delivered /\ obs'.returned = <<>>
          ELSE Intact => Intact']_vars

C23_Witness ==
    /\ obs.op = "next" /\ obs.result = "ok"
    /\ Len(obs.exch) = 1 /\ obs.exch[1].name = "getMore"
    /\ obs.delivered = Range(1, 3)
    /\ obs.recv = 3

\* a kill is due: a nonzero server cursor id on a cursor not yet killed
KillDue(c) == IdTruthy(c._id) /\ ~c._killed

\* the one request the entry point r handed to the client, on path
Forwarded(r, path) ==
    /\ Len(r.obs.cleanups) = 1
    /\ r.obs.cleanups[1].path = path
    /\ r.self._killed
    /\ IF KillDue(self)
       THEN /\ r.obs.cleanups[1].cursor_id = self._id[1]
            /\ self._address # None
            /\ r.obs.cleanups[1].address
                  = Some([address |-> self._address, ns |-> self._ns])
       ELSE /\ r.obs.cleanups[1].cursor_id = 0
            /\ r.obs.cleanups[1].address = None

\* C24: either cleanup entry point forwards a kill only for a nonzero
\* cursor id on a cursor not yet killed, to the recorded address and the
\* cursor's namespace; otherwise it passes cursor id 0 and no address.
C24_KillOnlyWhenDue ==
    /\ Forwarded(_die_lock(Begin(W, "close")), "lock")
    /\ Forwarded(_die_no_lock(Begin(W, "__del__")), "no_lock")

C24_Witness ==
    /\ obs.op \in {"close", "__del__"}
    /\ Len(obs.cleanups) = 1
    /\ obs.cleanups[1].cursor_id = ServerCursorId("B")
    /\ obs.cleanups[1].address = Some([address |-> Some("B"), ns |-> OtherNs])
    /\ self._killed

\* the kill requests among the cleanups of the call
KillsOf(cleanups) == {i \in 1..Len(cleanups) : cleanups[i].cursor_id # 0}

\* the call ended on a server error out of exchange e: killed, and a kill
\* for the cursor id of e exactly when the error leaves the server cursor
\* open, the cursor is not in exhaust mode and e was a getMore
ServerErrorHandled(c, o, e) ==
    /\ c._killed
    /\ IF o.fault.closed \/ c._exhaust \/ ~IdTruthy(e.cursor_id)
       THEN KillsOf(o.cleanups) = {}
       ELSE /\ Cardinality(KillsOf(o.cleanups)) = 1
            /\ \A i \in KillsOf(o.cleanups) : o.cleanups[i].cursor_id = e.cursor_id[1]
            /\ o.result = "OperationFailure"

\* C25: a server error with a cursor-closed code, or any server error in
\* exhaust mode, marks the cursor killed and forwards no kill; any other
\* server error on a getMore of a non-exhaust cursor forwards exactly one
\* kill and is re-raised.
C25_ServerErrorKillsWhenOpen ==
    [][obs'.fault.kind = "OperationFailure"
       => ServerErrorHandled(self', obs', obs'.exch[Len(obs'.exch)])]_vars

C25_Witness ==
    /\ obs.fault.kind = "OperationFailure" /\ ~obs.fault.closed
    /\ ~self._exhaust
    /\ obs.exch[Len(obs.exch)].name = "getMore"
    /\ Len(obs.cleanups) = 1 /\ obs.cleanups[1].cursor_id # 0
    /\ obs.result = "OperationFailure"

\* C26: a failed exchange flagged as a timeout, by the server or by the
\* network, is cleaned up on the lock-free path and marks the cursor
\* killed; a failure not so flagged is cleaned up on the locking path.
C26_TimeoutNeverLocks ==
    [][obs'.fault.kind # "none"
       => /\ obs'.cleanups # <<>>
          /\ \A i \in 1..Len(obs'.cleanups) :
                obs'.cleanups[i].path
                   = (IF obs'.fault.timeout THEN "no_lock" ELSE "lock")
          /\ obs'.fault.timeout => self'._killed]_vars

\* C27: after either cleanup entry point the cursor holds no pinned
\* connection and no implicit session, also when the client's cleanup
\* call raised.
C27_ReferencesClearedEvenOnFailure ==
    \A path \in {"lock", "no_lock"} :
        /\ _die(Begin(W, "close"), path).self._sock_mgr = None
        /\ _die_interrupted(Begin(W, "close"), path).self._sock_mgr = None
        /\ ~self._explicit_session
              => _die_interrupted(Begin(W, "close"), path).self._session = None

\* C28: a session supplied by the caller stays the cursor's session and is
\* never released, whatever the call (close, exhaustion, failure cleanup,
\* rewind, finalization); a session the cursor bound itself is released
\* and cleared by every cleanup.
C28_ExplicitSessionNeverReleased ==
    [][IF self._explicit_session
       THEN /\ self'._explicit_session
            /\ self'._session = self._session
            /\ self'._session # None
            /\ client'.sessions = client.sessions
       ELSE /\ ~self'._explicit_session
            /\ obs'.cleanups # <<>> => (self'._session = None /\ client'.sessions = 0)
            /\ client'.sessions = (IF self'._session # None THEN 1 ELSE 0)]_vars

C28_Witness ==
    /\ self._explicit_session /\ self._session = Some("explicit")
    /\ obs.op = "rewind"
    /\ Len(obs.cleanups) = 1 /\ obs.cleanups[1].cursor_id # 0

\* documents received by the exchanges of the call before exchange i
RECURSIVE GotBefore(_, _)
GotBefore(exch, i) == IF i <= 1 THEN 0 ELSE exch[i - 1].got + GotBefore(exch, i - 1)

\* the batch size for a limit l, a batch size b and r documents retrieved:
\* read to the letter, min(l - r, b) also when b is 0; or with b = 0
\* standing for no batch size
AskedFor(l, b, r, literal) ==
    IF l = 0 THEN b
    ELSE IF b = 0 /\ ~literal THEN l - r
    ELSE Minimum(l - r, b)

\* every getMore of the call asked for that batch size, for the retrieved
\* count at the time of the exchange
GetMoresAsk(literal) ==
    \A i \in 1..Len(obs'.exch) :
        obs'.exch[i].name = "getMore"
           => obs'.exch[i].n = AskedFor(self._limit, self._batch_size,
                                        self._retrieved + GotBefore(obs'.exch, i),
                                        literal)

C30_HardLimitOneExchange ==
    [][/\ Len(obs'.exch) <= 1
       /\ \A i \in 1..Len(obs'.exch) : obs'.exch[i].name # "getMore"
       /\ obs'.exch # <<>>
             => /\ self._id = None /\ ~self._killed
                /\ self'._killed
                /\ IF IdTruthy(self'._id)
                   THEN /\ Cardinality(KillsOf(obs'.cleanups)) = 1
                        /\ \A i \in KillsOf(obs'.cleanups) :
                              obs'.cleanups[i].cursor_id = self'._id[1]
                   ELSE KillsOf(obs'.cleanups) = {}]_vars

C30_Witness ==
    /\ self._limit < 0
    /\ obs.op = "next" /\ obs.result = "ok"
    /\ Len(obs.exch) = 1 /\ obs.exch[1].name = "find"
    /\ IdTruthy(self._id) /\ self._killed
    /\ Len(obs.cleanups) = 1 /\ obs.cleanups[1].cursor_id = self._id[1]

\* cursor[i] ran a clone with skip i more than the receiver's, the hard
\* limit -1 and no await flag, and returned its first document, or raised
\* IndexError when its one response was empty
RanClone(r, i) ==
    /\ r.obs.clone # None
    /\ r.obs.clone[1].cursor._skip = i + self._skip
    /\ r.obs.clone[1].cursor._limit = 0 - 1
    /\ "await_data" \notin r.obs.clone[1].cursor._query_flags
    /\ Len(r.obs.clone[1].exch) = 1
    /\ r.obs.clone[1].exch[1].name = "find"
    /\ r.obs.clone[1].exch[1].n = 0 - 1
    /\ IF r.obs.clone[1].exch[1].got > 0
       THEN Ok(r) /\ Len(r.obs.returned) = 1 /\ r.obs.returned[1] = 1
       ELSE r.obs.result = "IndexError" /\ r.obs.returned = <<>>

\* cursor[i] was refused before any exchange
RefusedClone(r) ==
    /\ r.obs.result = "InvalidOperation"
    /\ r.obs.returned = <<>>
    /\ r.obs.exch = <<>>
    /\ r.obs.clone # None => r.obs.clone[1].exch = <<>>

Indexed(r, i, always) ==
    IF always THEN RanClone(r, i)
    ELSE IF self._exhaust \/ ((self._min # None \/ self._max # None) /\ self._hint = None)
    THEN RefusedClone(r)
    ELSE RanClone(r, i)

\* C31 as stated: cursor[i], i >= 0, on any unstarted cursor runs a clone
\* with skip i + the receiver's skip, the hard limit -1 in place of any
\* limit and the await flag stripped, and returns the clone's first
\* document or raises IndexError when there is none.
C31_IndexRunsCloneAlways ==
    ~Used(self) =>
        \A i \in {j \in Indexes : j >= 0}, sc \in Thin :
            Indexed(_getitem_int(Begin(W, "getitem_int"), i, sc), i, TRUE)

\* C31 amended: the same on a cursor that is not in exhaust mode and whose
\* query is not refused locally; on those the call raises InvalidOperation
\* before any exchange.
C31_IndexRunsClone ==
    ~Used(self) =>
        \A i \in {j \in Indexes : j >= 0}, sc \in Thin :
            Indexed(_getitem_int(Begin(W, "getitem_int"), i, sc), i, FALSE)

C31_Witness ==
    /\ obs.op = "getitem_int" /\ obs.result = "ok"
    /\ self._skip = 1 /\ self._limit = 2
    /\ obs.clone # None
    /\ obs.clone[1].cursor._skip = 2
    /\ obs.clone[1].cursor._limit = 0 - 1
    /\ obs.returned = <<1>>

\* the bounds of a slice, an absent start counting as 0
From(s) == IF s.start # None THEN s.start[1] ELSE 0

\* the slice r of the current cursor by s: the same cursor but for skip,
\* limit and the EMPTY flag
Sliced(r, s) ==
    /\ Ok(r)
    /\ r.self._skip = From(s)
    /\ r.self._limit = (IF s.stop # None THEN s.stop[1] - From(s) ELSE 0)
    /\ r.self._empty = (s.stop # None /\ s.stop[1] = From(s))
    /\ r.self = [self EXCEPT !._skip = r.self._skip, !._limit = r.self._limit,
                             !._empty = r.self._empty]
    /\ r.obs.exch = <<>>

NsAt(addr) == IF addr = Some("B") THEN OtherNs ELSE OrigNs

\* C33: every getMore and every kill of a cursor whose initial response
\* carried a namespace override names the overriding namespace; without
\* an override they name the namespace of the original collection.
C33_OverrideOrOriginalNamespace ==
    [][/\ \A i \in 1..Len(obs'.exch) :
             obs'.exch[i].name = "getMore"
                => obs'.exch[i].ns = NsAt(obs'.exch[i].address)
       /\ \A i \in KillsOf(obs'.cleanups) :
             obs'.cleanups[i].address[1].ns
                = NsAt(obs'.cleanups[i].address[1].address)]_vars

(* ------------------------- Cursor._query_spec ------------------------- *)
\* Bounds of the query documents: keys of a filter, modifiers set at
\* once, calls of _query_spec on one cursor.
MaxKeys == 2
MaxModifiers == 2
MaxQueryCalls == 2

\* Python values: an int, a str, a bool, or a dict, which is a sequence
\* of [key, val] items in insertion order
PyInt(n) == [kind |-> "int", int |-> n, str |-> "", bool |-> FALSE, doc |-> <<>>]

PyStr(t) == [kind |-> "str", int |-> 0, str |-> t, bool |-> FALSE, doc |-> <<>>]

PyBool(b) == [kind |-> "bool", int |-> 0, str |-> "", bool |-> b, doc |-> <<>>]

PyDict(d) == [kind |-> "dict", int |-> 0, str |-> "", bool |-> FALSE, doc |-> d]

\* `if x:` on an optional value
Truthy(x) ==
    /\ x # None
    /\ CASE x[1].kind = "int" -> x[1].int # 0
         [] x[1].kind = "str" -> x[1].str # ""
         [] x[1].kind = "bool" -> x[1].bool
         [] x[1].kind = "dict" -> Len(x[1].doc) # 0

\* `k in d`
_contains(d, k) == \E i \in 1..Len(d) : d[i].key = k

\* `d[k] = v`: in place when the key is present, appended otherwise
_setitem(d, k, v) ==
    IF _contains(d, k)
    THEN [i \in 1..Len(d) |-> IF d[i].key = k THEN [key |-> k, val |-> v] ELSE d[i]]
    ELSE Append(d, [key |-> k, val |-> v])

\* `if cond: d[k] = x`
_setitem_if(cond, d, k, x) == IF cond THEN _setitem(d, k, x[1]) ELSE d

\* `d.update(other)`
RECURSIVE _update(_, _)
_update(d, other) ==
    IF other = <<>> THEN d
    ELSE _update(_setitem(d, other[1].key, other[1].val), Tail(other))

\* the operators dict of _query_spec
_operators(c) ==
    _setitem_if(c._snapshot # None,
     _setitem_if(c._show_record_id # None,
      _setitem_if(c._return_key # None,
       _setitem_if(Truthy(c._min),
        _setitem_if(Truthy(c._max),
         _setitem_if(c._max_time_ms # None,
          _setitem_if(Truthy(c._max_scan),
           _setitem_if(Truthy(c._comment),
            _setitem_if(Truthy(c._let),
             _setitem_if(Truthy(c._hint),
              _setitem_if(c._explain,
               _setitem_if(Truthy(c._ordering), <<>>, "$orderby", c._ordering),
               "$explain", Some(PyBool(TRUE))),
              "$hint", c._hint),
             "let", c._let),
            "$comment", c._comment),
           "$maxScan", c._max_scan),
          "$maxTimeMS", c._max_time_ms),
         "$max", c._max),
        "$min", c._min),
       "$returnKey", c._return_key),
      "$showDiskLoc", c._show_record_id),
     "$snapshot", c._snapshot)

\* {"$query": spec}
_wrap(spec) == <<[key |-> "$query", val |-> PyDict(spec)]>>

\* _query_spec with the operators written into the filter itself
_query_spec_in_place(c) ==
    IF _operators(c) # <<>>
    THEN IF ~_contains(c._spec, "$query")
         THEN [self |-> c, spec |-> _update(_wrap(c._spec), _operators(c))]
         ELSE [self |-> [c EXCEPT !._spec = _update(c._spec, _operators(c))],
               spec |-> _update(c._spec, _operators(c))]
    ELSE IF _contains(c._spec, "query")
            /\ (Len(c._spec) = 1 \/ c._spec[1].key = "query")
         THEN [self |-> c, spec |-> _wrap(c._spec)]
         ELSE [self |-> c, spec |-> c._spec]

\* Cursor._query_spec: the cursor after the call and the spec returned
_query_spec(c) ==
    IF _operators(c) # <<>>
    THEN [self |-> c,
          spec |-> _update(IF ~_contains(c._spec, "$query")
                           THEN _wrap(c._spec) ELSE c._spec,
                           _operators(c))]
    ELSE IF _contains(c._spec, "query")
            /\ (Len(c._spec) = 1 \/ c._spec[1].key = "query")
         THEN [self |-> c, spec |-> _wrap(c._spec)]
         ELSE [self |-> c, spec |-> c._spec]

\* the filters a caller passes: up to MaxKeys distinct keys in any order,
\* an envelope key holding a document
FilterKeys == {"query", "$query", "$comment"}

FilterItem(k) ==
    [key |-> k, val |-> IF k = "$query" THEN PyDict(<<>>) ELSE PyStr("f")]

Filters ==
    {[i \in DOMAIN ks |-> FilterItem(ks[i])] :
        ks \in {t \in UNION {[1..m -> FilterKeys] : m \in 0..MaxKeys} :
                  \A i, j \in DOMAIN t : t[i] = t[j] => i = j}}

ModifierFields ==
    {"_ordering", "_explain", "_hint", "_let", "_comment", "_max_scan",
     "_max_time_ms", "_max", "_min", "_return_key", "_show_record_id",
     "_snapshot"}

\* Cursor.__init__: the fields _query_spec reads, with at most MaxModifiers
\* of them other than the constructor's defaults
QueryCursors ==
    {c \in [_spec : Filters,
            _ordering : {None, Some(PyDict(<<[key |-> "a", val |-> PyInt(1)]>>))},
            _explain : BOOLEAN,
            _hint : {None, Some(PyStr("idx"))},
            _let : {None, Some(PyDict(<<>>)),
                    Some(PyDict(<<[key |-> "v", val |-> PyInt(1)]>>))},
            _comment : {None, Some(PyStr("")), Some(PyStr("c"))},
            _max_scan : {None, Some(PyInt(0)), Some(PyInt(1))},
            _max_time_ms : {None, Some(PyInt(0))},
            _max : {None, Some(PyDict(<<[key |-> "a", val |-> PyInt(9)]>>))},
            _min : {None, Some(PyDict(<<[key |-> "a", val |-> PyInt(0)]>>))},
            _return_key : {None, Some(PyBool(FALSE))},
            _show_record_id : {None, Some(PyBool(TRUE))},
            _snapshot : {None, Some(PyBool(FALSE))}] :
        Cardinality({f \in ModifierFields :
                        IF f = "_explain" THEN c[f] ELSE c[f] # None})
            <= MaxModifiers}

DoQuerySpec ==
    /\ obs.calls < MaxQueryCalls
    /\ self' = _query_spec(self).self
    /\ obs' = [op |-> "_query_spec", calls |-> obs.calls + 1,
               result |-> _query_spec(self).spec]
    /\ UNCHANGED <<client, server, mgr, pc, unpins>>

\* The query spec: a cursor as constructed with any filter and modifiers,
\* whose query spec is built up to MaxQueryCalls times.
InitQuery ==
    /\ self \in QueryCursors
    /\ client = [_encrypter |-> FALSE, pinned |-> {}, unpinned |-> 0, sessions |-> 0]
    /\ server = [sent |-> 0, limit |-> 0]
    /\ obs = [op |-> "init", calls |-> 0, result |-> <<>>]
    /\ NoManager

NextQuery ==
    \/ DoQuerySpec

SpecQuery == InitQuery /\ [][NextQuery]_vars

\* the modifiers of cursor c that are set, each with the reserved key it
\* is sent under: set means truthy, and for maxTimeMS, returnKey,
\* showRecordId and snapshot, not None
SetModifiers(c) ==
    {m \in {[key |-> "$orderby", set |-> Truthy(c._ordering), val |-> c._ordering],
            [key |-> "$explain", set |-> c._explain, val |-> Some(PyBool(TRUE))],
            [key |-> "$hint", set |-> Truthy(c._hint), val |-> c._hint],
            [key |-> "let", set |-> Truthy(c._let), val |-> c._let],
            [key |-> "$comment", set |-> Truthy(c._comment), val |-> c._comment],
            [key |-> "$maxScan", set |-> Truthy(c._max_scan), val |-> c._max_scan],
            [key |-> "$maxTimeMS", set |-> c._max_time_ms # None,
             val |-> c._max_time_ms],
            [key |-> "$max", set |-> Truthy(c._max), val |-> c._max],
            [key |-> "$min", set |-> Truthy(c._min), val |-> c._min],
            [key |-> "$returnKey", set |-> c._return_key # None,
             val |-> c._return_key],
            [key |-> "$showDiskLoc", set |-> c._show_record_id # None,
             val |-> c._show_record_id],
            [key |-> "$snapshot", set |-> c._snapshot # None, val |-> c._snapshot]} :
        m.set}

\* the values document d holds under key k
ValuesAt(d, k) == {d[i].val : i \in {j \in 1..Len(d) : d[j].key = k}}

\* document r is filter f with the set modifiers of c attached: f wrapped
\* under "$query" followed by the modifiers, or, unless strict, when a
\* modifier is set and f has the key "$query" already, f itself with the
\* modifiers written into it
Attached(c, f, r, strict) ==
    /\ \A m \in SetModifiers(c) : ValuesAt(r, m.key) = {m.val[1]}
    /\ IF strict \/ SetModifiers(c) = {} \/ ~_contains(f, "$query")
       THEN /\ Len(r) = 1 + Cardinality(SetModifiers(c))
            /\ r[1] = [key |-> "$query", val |-> PyDict(f)]
       ELSE /\ Len(r) = Len(f) + Cardinality({m \in SetModifiers(c) :
                                                 ~_contains(f, m.key)})
            /\ \A i \in 1..Len(f) :
                  /\ r[i].key = f[i].key
                  /\ (\A m \in SetModifiers(c) : m.key # f[i].key) => r[i] = f[i]

\* r is the query spec of cursor c: the filter itself when no modifier is
\* set and "query" is not its first key (strict: it is not the one-key
\* document keyed "query"), else the filter with the modifiers attached
Built(c, r, strict) ==
    IF /\ SetModifiers(c) = {}
       /\ ~(/\ Len(c._spec) >= 1
            /\ c._spec[1].key = "query"
            /\ (strict => Len(c._spec) = 1))
    THEN r = c._spec
    ELSE Attached(c, c._spec, r, strict)

\* C34 as stated: the filter is returned as it is exactly when no modifier
\* is set and it is not the one-key document keyed "query", and is else
\* wrapped under "$query" with the set modifiers beside it; the cursor and
\* the filter are not changed and a repeated call returns the same.
C34_QuerySpecWrapsAlways ==
    [][/\ self' = self
       /\ Built(self, obs'.result, TRUE)
       /\ obs.op = "_query_spec" => obs'.result = obs.result]_vars

\* C34: _query_spec changes neither the cursor nor the filter and returns
\* the same when repeated; it returns the filter as it is when no modifier
\* is set and "query" is not the filter's first key; else it returns the
\* filter wrapped under "$query" - or, when a modifier is set and the
\* filter has the key "$query" already, a copy of the filter - with every
\* set modifier attached under its reserved key.
C34_QuerySpecPure ==
    [][/\ self' = self
       /\ Built(self, obs'.result, FALSE)
       /\ obs.op = "_query_spec" => obs'.result = obs.result]_vars

C34_Witness ==
    /\ obs.op = "_query_spec" /\ obs.calls = 2
    /\ Truthy(self._comment) /\ self._max_time_ms # None
    /\ Len(self._spec) = 2 /\ ~_contains(self._spec, "$query")
    /\ Len(obs.result) = 3 /\ obs.result[1].val.doc = self._spec

\* C35: between two rewinds (the rewind's own close counted with what came
\* before it) at most one kill request is forwarded, and a forwarded kill
\* carries the nonzero server cursor id the cursor holds at that moment.
C35_OneKillBetweenRewinds ==
    [][/\ obs.kills + Cardinality(KillsOf(obs'.cleanups)) <= 1
       /\ \A i \in KillsOf(obs'.cleanups) :
             /\ IdTruthy(IF obs'.op = "rewind" THEN self._id ELSE self'._id)
             /\ obs'.cleanups[i].cursor_id
                   = (IF obs'.op = "rewind" THEN self._id ELSE self'._id)[1]]_vars

\* a next() that reached the limit and forwarded the one kill, and a
\* close() after it that forwarded none
C35_Witness ==
    /\ obs.op = "close" /\ obs.prev = "other" /\ obs.kills = 1
    /\ self._limit = 2 /\ self._retrieved = 2 /\ IdTruthy(self._id)
    /\ KillsOf(obs.cleanups) = {}

\* cursor c, if killed, holds no pinned connection and, unless the caller
\* supplied the session, no session; and holds a pinned connection only
\* while not killed and with a nonzero server cursor id
HoldsNothing(c) ==
    /\ c._killed
          => /\ c._sock_mgr = None
             /\ ~c._explicit_session => c._session = None
    /\ c._sock_mgr # None => ~c._killed /\ IdTruthy(c._id)

\* C36: in every state between public operations a killed cursor holds no
\* local resource, the states left by a close() or a finalization out of
\* which the client's cleanup call raised included.
C36_KilledHoldsNothing ==
    /\ HoldsNothing(self)
    /\ HoldsNothing(_die_interrupted(Begin(W, "close"), "lock").self)
    /\ HoldsNothing(_die_interrupted(Begin(W, "__del__"), "no_lock").self)

\* C37: cursor[i], whether it returns a document or raises IndexError,
\* leaves every field of the receiver as it was, the EMPTY flag included.
C37_IndexLeavesReceiver ==
    [][(obs'.op = "getitem_int" /\ obs'.result \in {"ok", "IndexError"})
          => self' = self]_vars

\* C38: a slice that raises IndexError (a step, a negative start, a stop
\* below the start) leaves skip, limit and the EMPTY flag as they were.
C38_FailedSliceChangesNothing ==
    [][(obs'.op = "getitem_slice" /\ obs'.result = "IndexError")
          => /\ self'._skip = self._skip
             /\ self'._limit = self._limit
             /\ self'._empty = self._empty]_vars

\* C39: every getMore of a cursor with a limit L > 0 asks for n documents
\* with 1 <= n <= L - retrieved, retrieved counted when the getMore is
\* sent, whatever the batch size.
C39_GetMoreWithinLimit ==
    [][self._limit > 0
          => \A i \in 1..Len(obs'.exch) :
                obs'.exch[i].name = "getMore"
                   => /\ 1 <= obs'.exch[i].n
                      /\ obs'.exch[i].n
                            <= self._limit - (self._retrieved + GotBefore(obs'.exch, i))]_vars

\* limit 3, batch size 1: a getMore for 1 document with 2 still allowed
C39_Witness ==
    /\ self._limit = 3 /\ self._batch_size = 1 /\ self._retrieved = 2
    /\ Len(obs.exch) = 1
    /\ obs.exch[1].name = "getMore" /\ obs.exch[1].n = 1 /\ obs.exch[1].got = 1

\* in world w next() has signalled the end of the stream on a cursor that
\* is killed and not alive and holds neither a pinned connection nor a
\* session of its own
EndOfStream(w) ==
    /\ w.obs.op = "next" /\ w.obs.result = "StopIteration"
    /\ w.self._killed /\ ~alive(w.self)
    /\ w.self._sock_mgr = None /\ w.client.pinned = {}
    /\ ~w.self._explicit_session => w.self._session = None

\* a bound on the calls of next() still to come before the end of the
\* stream: 2 for each of the 5 documents not yet received, 1 for each
\* buffered document, 1 for the initial query
Left(w) ==
    2 * (5 - w.obs.recv) + Len(w.self._data) + (IF w.self._id = None THEN 1 ELSE 0)

\* the call of next() that led to r returned a document or signalled the
\* end of the stream; after the end of the stream it changed nothing and
\* made no exchange; before, it reached the end of the stream or brought
\* it nearer
Nearer(r) ==
    /\ r.obs.result \in {"ok", "StopIteration"}
    /\ IF EndOfStream(W)
       THEN /\ EndOfStream(r)
            /\ r.obs.exch = <<>>
            /\ r.self = self /\ r.client = client
       ELSE /\ Left(r) \in Nat
            /\ EndOfStream(r) \/ Left(r) < Left(W)

\* C40 as stated: when every exchange succeeds and the server reports
\* cursor id 0 after finitely many batches, repeated calls of next() on a
\* cursor that is not tailable come to signal the end of the stream, and
\* from the signal on the cursor is killed, not alive and without pinned
\* connection or implicit session, and no call makes an exchange.
C40_EveryStopIsTheEnd ==
    /\ \A sc \in Ending(self) : Nearer(next(Begin(W, "next"), sc))
    /\ (obs.op = "next" /\ obs.result = "StopIteration") => EndOfStream(W)

\* C40 amended: every call of next() either signals the end of the stream
\* on a killed cursor or brings that nearer by a bounded measure, so that
\* repeated calls reach it; from then on the cursor stays killed, not
\* alive and without pinned connection or implicit session, and no call
\* makes an exchange.  A StopIteration raised before, on an empty batch
\* that leaves the server cursor open, is not yet that point.
C40_NextReachesEndOfStream ==
    \A sc \in Ending(self) : Nearer(next(Begin(W, "next"), sc))

\* the 5 documents handed out, then the end signalled with no exchange
C40_Witness ==
    /\ EndOfStream(W)
    /\ obs.delivered = Range(1, 5)
    /\ obs.exch = <<>>
    /\ self._id = Some(0)

====
